---- MODULE Spec2Model ----
(***************************************************************************)
(* The collection synchronisation pipeline of scripts/compress_images.py   *)
(* with its collaborators lib/gallery_manager.py, lib/s3_uploader.py and   *)
(* lib/image_processor.py.                                                 *)
(*                                                                         *)
(* Strings (file names, object keys) are sequences of one-character        *)
(* strings, so that splitext, basename, endswith, startswith and replace   *)
(* are computed character by character as the Python code computes them.   *)
(* Local paths are sequences of path components.                           *)
(***************************************************************************)
EXTENDS Integers, Sequences, FiniteSets, TLC

(***************************************************************************)
(* The state.                                                              *)
(***************************************************************************)
VARIABLES
    fs,                 \* the local collection (listing of its root)
    bucket,             \* the keys present in the S3 bucket
    manifest,           \* the gallery-config.json file: [valid, groups]
    gallery_config,     \* GalleryManager.gallery_config['groups']
    pc,                 \* the position of process_group
    run,                \* the number of runs started
    clock,              \* the time of the current run
    faults,             \* the failures of collaborators so far
    exit_code,          \* the exit status of the run: "none", "0", "1"
    group_dirs,         \* process_group: group_dirs
    validation_errors,  \* process_group: validation_errors
    purge_result,       \* what delete_collection returned: "none", "ok", "failed"
    gi,                 \* the index of source_dir in source_dirs
    li,                 \* the index of filename in os.listdir(source_dir)
    image_files,        \* process_group: image_files
    ui,                 \* the index of file_info in image_files
    log,                \* the effects of the current run, in order
    prev                \* the files and the bucket when the current run started

vars == << fs, bucket, manifest, gallery_config, pc, run, clock, faults, exit_code,
           group_dirs, validation_errors, purge_result, gi, li, image_files, ui,
           log, prev >>

(***************************************************************************)
(* String helpers (Python str / os.path semantics).                        *)
(***************************************************************************)
Uppers == <<"A","B","C","D","E","F","G","H","I","J","K","L","M",
            "N","O","P","Q","R","S","T","U","V","W","X","Y","Z">>

Lowers == <<"a","b","c","d","e","f","g","h","i","j","k","l","m",
            "n","o","p","q","r","s","t","u","v","w","x","y","z">>

Digits == <<"0","1","2","3","4","5","6","7","8","9">>

\* str.lower() on one character
LowerChar(c) ==
    IF \E i \in 1..26 : Uppers[i] = c
    THEN Lowers[CHOOSE i \in 1..26 : Uppers[i] = c]
    ELSE c

\* str.lower()
lower(s) == [i \in 1..Len(s) |-> LowerChar(s[i])]

\* str.endswith(suffix)
endswith(s, suf) ==
    /\ Len(suf) <= Len(s)
    /\ SubSeq(s, Len(s) - Len(suf) + 1, Len(s)) = suf

\* str.startswith(prefix)
startswith(s, pre) ==
    /\ Len(pre) <= Len(s)
    /\ SubSeq(s, 1, Len(pre)) = pre

\* index of the last occurrence of character c in s, 0 when absent (str.rfind + 1)
rfind(s, c) ==
    IF \E i \in 1..Len(s) : s[i] = c
    THEN CHOOSE i \in 1..Len(s) : s[i] = c /\ \A j \in (i+1)..Len(s) : s[j] # c
    ELSE 0

\* os.path.basename: what follows the last '/'
basename(p) == SubSeq(p, rfind(p, "/") + 1, Len(p))

\* position of the '.' at which os.path.splitext splits p, 0 when the
\* extension is empty: the last '.' after the last '/', unless only dots
\* lie between the start of the file name and it (leading dots are kept).
splitpos(p) ==
    LET sep == rfind(p, "/")
        dot == rfind(p, ".")
    IN  IF dot > sep /\ \E k \in (sep+1)..(dot-1) : p[k] # "."
        THEN dot
        ELSE 0

\* os.path.splitext(p)[0]
splitext_root(p) == IF splitpos(p) = 0 THEN p ELSE SubSeq(p, 1, splitpos(p) - 1)

\* os.path.splitext(p)[1]
splitext_ext(p) == IF splitpos(p) = 0 THEN <<>> ELSE SubSeq(p, splitpos(p), Len(p))

RECURSIVE replace(_, _, _)
\* str.replace(old, new) for a one-character old
replace(s, old, new) ==
    IF s = <<>> THEN <<>>
    ELSE (IF Head(s) = old THEN new ELSE <<Head(s)>>) \o replace(Tail(s), old, new)

(***************************************************************************)
(* String constants of the program.                                        *)
(***************************************************************************)
\* 'compressed': the reserved directory name
compressed_name == <<"c","o","m","p","r","e","s","s","e","d">>

\* 'config.json'
config_json == <<"c","o","n","f","i","g",".","j","s","o","n">>

\* '-compressed'
compressed_suffix == <<"-">> \o compressed_name

\* '-compressed.': what filename.replace('.', ...) puts in place of each '.'
compressed_dot == compressed_suffix \o <<".">>

\* image_extensions of has_image_files
image_extensions ==
    { <<".","j","p","g">>, <<".","j","p","e","g">>, <<".","p","n","g">>,
      <<".","g","i","f">>, <<".","b","m","p">>, <<".","t","i","f","f">>,
      <<".","w","e","b","p">> }

(***************************************************************************)
(* Run-level configuration (lib/config.py): the values of one deployment.  *)
(***************************************************************************)
\* config['s3']['base_path']
base_path == <<"p">>

\* config['image_processing']['formats']
formats == { <<".","j","p","g">>, <<".","j","p","e","g">>, <<".","p","n","g">> }

\* config['paths']['photography_collection'], one path component
collection_root == <<"r">>

(***************************************************************************)
(* validate_date_directory_name                                            *)
(***************************************************************************)
IsDigit(c) == \E i \in 1..10 : Digits[i] = c

DigitVal(c) == (CHOOSE i \in 1..10 : Digits[i] = c) - 1

\* re.match(r'^\d{4}-\d{2}-\d{2}$', dir_name): '$' also matches before one
\* trailing newline
MatchesDatePattern(s) ==
    /\ Len(s) = 10 \/ (Len(s) = 11 /\ s[11] = "\n")
    /\ \A i \in {1, 2, 3, 4, 6, 7, 9, 10} : IsDigit(s[i])
    /\ s[5] = "-"
    /\ s[8] = "-"

IsLeap(y) == y % 4 = 0 /\ (y % 100 # 0 \/ y % 400 = 0)

DaysInMonth(y, m) ==
    IF m = 2 THEN (IF IsLeap(y) THEN 29 ELSE 28)
    ELSE IF m \in {4, 6, 9, 11} THEN 30
    ELSE 31

\* datetime.strptime(dir_name, '%Y-%m-%d') does not raise ValueError: the whole
\* string is consumed, the month is 01..12, the day is 01..31 and the triple
\* is a date of the proleptic Gregorian calendar from year 1 on
StrptimeOk(s) ==
    /\ Len(s) = 10
    /\ LET y == 1000 * DigitVal(s[1]) + 100 * DigitVal(s[2])
                + 10 * DigitVal(s[3]) + DigitVal(s[4])
           m == 10 * DigitVal(s[6]) + DigitVal(s[7])
           d == 10 * DigitVal(s[9]) + DigitVal(s[10])
       IN  /\ y >= 1
           /\ m \in 1..12
           /\ d \in 1..DaysInMonth(y, m)

PatternOnly(dir_name) == MatchesDatePattern(dir_name)

validate_date_directory_name(dir_name) ==
    MatchesDatePattern(dir_name) /\ StrptimeOk(dir_name)

(***************************************************************************)
(* The local collection.  A collection is the listing of its root: a       *)
(* sequence (in os.listdir order) of top-level entries                     *)
(*   [name, isDir, groups]                                                 *)
(* where groups is the listing of the entry when it is a directory: a      *)
(* sequence of second-level entries                                        *)
(*   [name, isDir, entries, config, cfiles]                                *)
(* entries is the listing of the second-level directory, a sequence of     *)
(*   [name, isDir, mtime]                                                  *)
(* (config.json and the 'compressed' directory are entries like the        *)
(* others), config is what json.load gives for its config.json, and cfiles *)
(* is the content of its 'compressed' directory: a set of [name, mtime].   *)
(* A local path is the sequence <<root, date directory, group directory>>. *)
(***************************************************************************)
\* json.load raises on this content
Unparsable == "unparsable"

IsHidden(name) == startswith(name, <<".">>)

\* os.path.join(path, name)
path_join(path, name) == Append(path, name)

\* the top-level entry a path goes through, and the group directory it names
TopOf(f, path) == f[CHOOSE i \in 1..Len(f) : f[i].name = path[2]]

GroupAt(f, path) ==
    LET t == TopOf(f, path)
    IN  t.groups[CHOOSE j \in 1..Len(t.groups) : t.groups[j].name = path[3]]

\* os.path.exists(os.path.join(group_dir, name))
HasEntry(g, name) == \E k \in 1..Len(g.entries) : g.entries[k].name = name

IsImageName(filename) == splitext_ext(lower(filename)) \in image_extensions

IsImageNameCaseSensitive(filename) == splitext_ext(filename) \in image_extensions

\* has_image_files(directory) for the directory whose listing is g.entries
has_image_files(g) ==
    \E k \in 1..Len(g.entries) : IsImageName(g.entries[k].name)

\* the condition of line 69, negated: the entry is looked at as a group
IsGroupCandidate(e) ==
    ~ (~e.isDir \/ IsHidden(e.name) \/ e.name = compressed_name)

\* the inner loop of discover_group_directories over one date directory
GroupsIn(date_dir_path, groups) ==
    LET Keep(e) == IsGroupCandidate(e) /\ has_image_files(e)
        kept == SelectSeq(groups, Keep)
    IN  [k \in 1..Len(kept) |-> path_join(date_dir_path, kept[k].name)]

RECURSIVE DiscoverFrom(_, _)
\* the outer loop of discover_group_directories from the i-th top-level entry
\* on: raised is the SystemExit(1) of line 62
DiscoverFrom(f, i) ==
    IF i > Len(f) THEN [raised |-> FALSE, dirs |-> <<>>]
    ELSE IF ~f[i].isDir \/ IsHidden(f[i].name) THEN DiscoverFrom(f, i + 1)
    ELSE IF ~validate_date_directory_name(f[i].name)
         THEN [raised |-> TRUE, dirs |-> <<>>]
    ELSE LET rest == DiscoverFrom(f, i + 1)
         IN  [raised |-> rest.raised,
              dirs   |-> IF rest.raised THEN <<>>
                         ELSE GroupsIn(path_join(<<collection_root>>, f[i].name),
                                       f[i].groups) \o rest.dirs]

discover_group_directories(f) == DiscoverFrom(f, 1)

\* a non-'compressed' subdirectory (line 130)
HasSubdirectory(g) ==
    \E k \in 1..Len(g.entries) :
        g.entries[k].isDir /\ g.entries[k].name # compressed_name

\* the leading element of dirs that satisfies the test of errs, if any
FirstOnly(f, dirs) ==
    [missing_config |->
        LET Bad(d) == ~HasEntry(GroupAt(f, d), config_json)
            all == SelectSeq(dirs, Bad)
        IN  IF all = <<>> THEN <<>> ELSE <<all[1]>>,
     has_subdirectories |->
        LET Bad(d) == HasSubdirectory(GroupAt(f, d))
            all == SelectSeq(dirs, Bad)
        IN  IF all = <<>> THEN <<>> ELSE <<all[1]>>]

\* only the config.json check is made
validate_config_only(f, dirs) ==
    [missing_config |->
        LET Bad(d) == ~HasEntry(GroupAt(f, d), config_json)
        IN  SelectSeq(dirs, Bad),
     has_subdirectories |-> <<>>]

\* validate_group_directories(group_dirs)
validate_group_directories(f, dirs) ==
    [missing_config |->
        LET Bad(d) == ~HasEntry(GroupAt(f, d), config_json)
        IN  SelectSeq(dirs, Bad),
     has_subdirectories |->
        LET Bad(d) == HasSubdirectory(GroupAt(f, d))
        IN  SelectSeq(dirs, Bad)]

(***************************************************************************)
(* lib/image_processor.py and the naming of compressed artifacts.          *)
(***************************************************************************)
\* ImageProcessor.is_valid_image(filename)
is_valid_image(filename) == \E ext \in formats : endswith(lower(filename), ext)

\* compressed_filename = filename.replace('.', '-compressed.') (line 274)
compressed_filename_of(filename) == replace(filename, ".", compressed_dot)

(***************************************************************************)
(* lib/s3_uploader.py.  An object key is a string; the bucket is the set   *)
(* of keys present.                                                        *)
(***************************************************************************)
slash == <<"/">>

\* S3Uploader.get_s3_keys(group_id, filename, compressed_filename)['compressed']
get_s3_keys_compressed(group_id, filename, compressed_filename) ==
    LET s3_prefix == base_path \o slash \o group_id
    IN  s3_prefix \o slash \o compressed_name \o slash \o compressed_filename

\* S3Uploader.get_s3_keys(group_id, filename, compressed_filename)['original']
get_s3_keys_original(group_id, filename, compressed_filename) ==
    LET s3_prefix == base_path \o slash \o group_id
    IN  s3_prefix \o slash \o <<"o","r","i","g","i","n","a","l">> \o slash \o filename

\* delete_prefix = prefix or self.config['base_path'], with prefix = None
delete_prefix == base_path

\* the keys list_objects_v2(Prefix=delete_prefix) returns: objects_to_delete
objects_to_delete(present) == { k \in present : startswith(k, delete_prefix) }

\* batch_size of delete_collection
batch_size == 1000

(***************************************************************************)
(* lib/gallery_manager.py.  gallery_config['groups'] is a sequence of      *)
(* group entries; an image entry is a record with a 'compressed' key and   *)
(* possibly an 'original' key.                                             *)
(***************************************************************************)
\* dict.get(key, default)
dict_get(d, key, default) == IF key \in DOMAIN d THEN d[key] ELSE default

\* the description with " at ", whatever the location
description_with_at(name, location, date_captured) ==
    name \o <<" ","a","t"," ">> \o location \o <<" ","o","n"," ">>
         \o date_captured \o <<".">>

\* f"{name} at {location} on {date_captured}." / f"{name} on {date_captured}."
description_of(name, location, date_captured) ==
    IF location # <<>>
    THEN name \o <<" ","a","t"," ">> \o location \o <<" ","o","n"," ">>
              \o date_captured \o <<".">>
    ELSE name \o <<" ","o","n"," ">> \o date_captured \o <<".">>

\* the group entry built by lines 39-73 from a parsed config.json
group_entry(group_dir, group_config) ==
    LET path_parts    == group_dir
        date_captured == path_parts[Len(path_parts) - 1]
        group_name    == path_parts[Len(path_parts)]
        name          == dict_get(group_config, "name", group_name)
        location      == dict_get(group_config, "location", <<>>)
        url           == dict_get(group_config, "url", <<>>)
        featured      == dict_get(group_config, "featured_image", <<>>)
        title         == name
        description   == description_of(name, location, date_captured)
        group_id      == group_name
    IN  IF url # <<>>
        THEN [id |-> group_id, title |-> title, description |-> description,
              date_captured |-> date_captured, images |-> <<>>,
              coverImage |-> <<>>, featured_image |-> featured, url |-> url]
        ELSE [id |-> group_id, title |-> title, description |-> description,
              date_captured |-> date_captured, images |-> <<>>,
              coverImage |-> <<>>, featured_image |-> featured]

\* an entry for every directory that holds a config.json, parsed or not
entries_for_any(f, group_dir) ==
    IF ~HasEntry(GroupAt(f, group_dir), config_json) THEN <<>>
    ELSE << group_entry(group_dir, GroupAt(f, group_dir).config.data) >>

\* the body of the loop of regenerate_from_groups for one directory: the
\* entries it appends (none when config.json is missing, json.load raises or
\* the path has fewer than two parts)
entries_for(f, group_dir) ==
    LET g == GroupAt(f, group_dir)
    IN  IF ~HasEntry(g, config_json) THEN <<>>
        ELSE IF ~g.config.parses THEN <<>>
        ELSE IF Len(group_dir) < 2 THEN <<>>
        ELSE << group_entry(group_dir, g.config.data) >>

RECURSIVE entries_from(_, _)
entries_from(f, group_directories) ==
    IF group_directories = <<>> THEN <<>>
    ELSE entries_for(f, Head(group_directories))
         \o entries_from(f, Tail(group_directories))

\* the new entries are appended to the groups of the manifest file
regenerate_merging(f, group_directories) ==
    manifest.groups \o entries_from(f, group_directories)

RECURSIVE regenerate_from_groups(_, _)
\* GalleryManager.regenerate_from_groups(group_directories): the new
\* gallery_config['groups'], built from an empty list
regenerate_from_groups(f, group_directories) ==
    IF group_directories = <<>> THEN <<>>
    ELSE entries_for(f, Head(group_directories))
         \o regenerate_from_groups(f, Tail(group_directories))

\* GalleryManager.get_group(group_id): the index of the first entry with
\* that id, 0 for None
get_group(groups, group_id) ==
    IF \E i \in 1..Len(groups) : groups[i].id = group_id
    THEN CHOOSE i \in 1..Len(groups) :
            groups[i].id = group_id /\ \A j \in 1..(i-1) : groups[j].id # group_id
    ELSE 0

\* the length of '-compressed' cut by compressed_base[:-11]
suffix_cut == 11

\* lines 116-123: the base name compared with featured_base
compressed_base_of(compressed_path) ==
    LET compressed_filename == basename(compressed_path)
        compressed_base     == splitext_root(compressed_filename)
    IN  IF endswith(compressed_base, compressed_suffix)
        THEN SubSeq(compressed_base, 1, Len(compressed_base) - suffix_cut)
        ELSE compressed_base

\* the test of the loop of lines 111-128 for one image entry
featured_matches(img, featured_image) ==
    IF "original" \in DOMAIN img /\ endswith(img.original, featured_image)
    THEN TRUE
    ELSE IF "compressed" \in DOMAIN img
    THEN splitext_root(featured_image) = compressed_base_of(img.compressed)
    ELSE FALSE

\* the first image is the cover whatever featured_image says
cover_first(featured_image, images) == images[1].compressed

\* no fallback to the first image when nothing matches
cover_no_fallback(featured_image, images) ==
    IF \E i \in 1..Len(images) : featured_matches(images[i], featured_image)
    THEN LET i == CHOOSE i \in 1..Len(images) :
                     /\ featured_matches(images[i], featured_image)
                     /\ \A j \in 1..(i-1) :
                           ~featured_matches(images[j], featured_image)
         IN  images[i].compressed
    ELSE <<>>

\* lines 101-137: the coverImage update_group_images gives a group with that
\* featured_image for a non-empty list of images
cover_image(featured_image, images) ==
    IF featured_image # <<>>
    THEN IF \E i \in 1..Len(images) : featured_matches(images[i], featured_image)
         THEN LET i == CHOOSE i \in 1..Len(images) :
                          /\ featured_matches(images[i], featured_image)
                          /\ \A j \in 1..(i-1) :
                                ~featured_matches(images[j], featured_image)
              IN  images[i].compressed
         ELSE images[1].compressed
    ELSE images[1].compressed

\* GalleryManager.update_group_images(group_id, images) on the in-memory
\* groups: unchanged when get_group finds nothing
update_group_images(groups, group_id, images) ==
    LET i == get_group(groups, group_id)
    IN  IF i = 0 THEN groups
        ELSE [groups EXCEPT
                ![i].images = images,
                ![i].coverImage =
                    IF images # <<>>
                    THEN cover_image(dict_get(groups[i], "featured_image", <<>>), images)
                    ELSE @]

(***************************************************************************)
(* The inputs: group directories, collections, the bucket and the manifest *)
(* file before the first run.  Modification times are small integers; the  *)
(* clock is 1 before the first run and advances by one at every run.       *)
(***************************************************************************)
\* b: two images, nothing compressed yet, the featured image listed second
GroupB ==
    [name |-> <<"b">>, isDir |-> TRUE,
     entries |-> <<[name |-> <<"a",".","j","p","g">>, isDir |-> FALSE, mtime |-> 1],
                    [name |-> <<"x",".","p","n","g">>, isDir |-> FALSE, mtime |-> 1],
                    [name |-> config_json, isDir |-> FALSE, mtime |-> 1]>>,
     config |-> [parses |-> TRUE, data |-> [name |-> <<"B">>, location |-> <<"S">>, featured_image |-> <<"x",".","p","n","g">>]],
     cfiles |-> {}]

\* l: an upper-case extension and a future-dated original with a stale artifact, and a fresh artifact of equal mtime
GroupL ==
    [name |-> <<"l">>, isDir |-> TRUE,
     entries |-> <<[name |-> <<"y",".","J","P","G">>, isDir |-> FALSE, mtime |-> 3],
                    [name |-> <<"a",".","j","p","g">>, isDir |-> FALSE, mtime |-> 1],
                    [name |-> config_json, isDir |-> FALSE, mtime |-> 1],
                    [name |-> compressed_name, isDir |-> TRUE, mtime |-> 1]>>,
     config |-> [parses |-> TRUE, data |-> [name |-> <<"L">>, url |-> <<"u">>]],
     cfiles |-> {[name |-> <<"y","-","c","o","m","p","r","e","s","s","e","d",".","J","P","G">>, mtime |-> 2], [name |-> <<"a","-","c","o","m","p","r","e","s","s","e","d",".","j","p","g">>, mtime |-> 1]}]

\* a second directory named b, for another date; its featured image matches nothing
GroupB2 ==
    [name |-> <<"b">>, isDir |-> TRUE,
     entries |-> <<[name |-> <<"x",".","j","p","g">>, isDir |-> FALSE, mtime |-> 1],
                    [name |-> config_json, isDir |-> FALSE, mtime |-> 1]>>,
     config |-> [parses |-> TRUE, data |-> [name |-> <<"N">>, featured_image |-> <<"z","z",".","j","p","g">>]],
     cfiles |-> {}]

\* x: two originals of the same stem, no name in config.json
GroupX ==
    [name |-> <<"x">>, isDir |-> TRUE,
     entries |-> <<[name |-> <<"x",".","j","p","g">>, isDir |-> FALSE, mtime |-> 1],
                    [name |-> <<"x",".","p","n","g">>, isDir |-> FALSE, mtime |-> 1],
                    [name |-> config_json, isDir |-> FALSE, mtime |-> 1]>>,
     config |-> [parses |-> TRUE, data |-> [featured_image |-> <<"x",".","p","n","g">>]],
     cfiles |-> {}]

\* n: images and no config.json
GroupNoCfg ==
    [name |-> <<"n">>, isDir |-> TRUE,
     entries |-> <<[name |-> <<"a",".","j","p","g">>, isDir |-> FALSE, mtime |-> 1]>>,
     config |-> [parses |-> FALSE, data |-> [name |-> <<>>]],
     cfiles |-> {}]

\* s: a disallowed subdirectory
GroupSub ==
    [name |-> <<"s">>, isDir |-> TRUE,
     entries |-> <<[name |-> <<"a",".","j","p","g">>, isDir |-> FALSE, mtime |-> 1],
                    [name |-> config_json, isDir |-> FALSE, mtime |-> 1],
                    [name |-> <<"r","a","w">>, isDir |-> TRUE, mtime |-> 1]>>,
     config |-> [parses |-> TRUE, data |-> [name |-> <<"S">>]],
     cfiles |-> {}]

\* m: no config.json and a disallowed subdirectory
GroupBoth ==
    [name |-> <<"m">>, isDir |-> TRUE,
     entries |-> <<[name |-> <<"r","a","w">>, isDir |-> TRUE, mtime |-> 1],
                    [name |-> <<"a",".","j","p","g">>, isDir |-> FALSE, mtime |-> 1]>>,
     config |-> [parses |-> FALSE, data |-> [name |-> <<>>]],
     cfiles |-> {}]

\* e: no image at all
GroupEmpty ==
    [name |-> <<"e">>, isDir |-> TRUE,
     entries |-> <<[name |-> <<"n",".","t","x","t">>, isDir |-> FALSE, mtime |-> 1],
                    [name |-> config_json, isDir |-> FALSE, mtime |-> 1]>>,
     config |-> [parses |-> TRUE, data |-> [name |-> <<"E">>]],
     cfiles |-> {}]

\* a second-level directory named compressed that holds an image
GroupReserved ==
    [name |-> <<"c","o","m","p","r","e","s","s","e","d">>, isDir |-> TRUE,
     entries |-> <<[name |-> <<"a",".","j","p","g">>, isDir |-> FALSE, mtime |-> 1]>>,
     config |-> [parses |-> FALSE, data |-> [name |-> <<>>]],
     cfiles |-> {}]

\* .h: a hidden second-level directory that holds an image
GroupHidden ==
    [name |-> <<".","h">>, isDir |-> TRUE,
     entries |-> <<[name |-> <<"a",".","j","p","g">>, isDir |-> FALSE, mtime |-> 1],
                    [name |-> config_json, isDir |-> FALSE, mtime |-> 1]>>,
     config |-> [parses |-> TRUE, data |-> [name |-> <<"H">>]],
     cfiles |-> {}]

\* f.jpg: a second-level entry that is a file
GroupFile ==
    [name |-> <<"f",".","j","p","g">>, isDir |-> FALSE,
     entries |-> <<>>,
     config |-> [parses |-> FALSE, data |-> [name |-> <<>>]],
     cfiles |-> {}]

\* d: its only entry is a subdirectory named t.jpg
GroupDirImg ==
    [name |-> <<"d">>, isDir |-> TRUE,
     entries |-> <<[name |-> <<"t",".","j","p","g">>, isDir |-> TRUE, mtime |-> 1],
                    [name |-> config_json, isDir |-> FALSE, mtime |-> 1]>>,
     config |-> [parses |-> TRUE, data |-> [name |-> <<"D">>]],
     cfiles |-> {}]

\* u: config.json exists and does not parse
GroupBadCfg ==
    [name |-> <<"u">>, isDir |-> TRUE,
     entries |-> <<[name |-> <<"a",".","j","p","g">>, isDir |-> FALSE, mtime |-> 1],
                    [name |-> config_json, isDir |-> FALSE, mtime |-> 1]>>,
     config |-> [parses |-> FALSE, data |-> [name |-> <<>>]],
     cfiles |-> {}]

\* g: an image of a recognised extension that is not among formats
GroupGif ==
    [name |-> <<"g">>, isDir |-> TRUE,
     entries |-> <<[name |-> <<"g",".","g","i","f">>, isDir |-> FALSE, mtime |-> 1],
                    [name |-> config_json, isDir |-> FALSE, mtime |-> 1]>>,
     config |-> [parses |-> TRUE, data |-> [name |-> <<"G">>]],
     cfiles |-> {}]

\* k: an original whose name holds two dots
GroupDots ==
    [name |-> <<"k">>, isDir |-> TRUE,
     entries |-> <<[name |-> <<"a",".","b",".","j","p","g">>, isDir |-> FALSE, mtime |-> 1],
                    [name |-> <<"c",".","j","p","g">>, isDir |-> FALSE, mtime |-> 1],
                    [name |-> config_json, isDir |-> FALSE, mtime |-> 1]>>,
     config |-> [parses |-> TRUE, data |-> [name |-> <<"K">>, featured_image |-> <<"a",".","b",".","j","p","g">>]],
     cfiles |-> {}]

\* w: a config.json whose location and url are empty strings
GroupW ==
    [name |-> <<"w">>, isDir |-> TRUE,
     entries |-> <<[name |-> <<"a",".","j","p","g">>, isDir |-> FALSE, mtime |-> 1],
                    [name |-> config_json, isDir |-> FALSE, mtime |-> 1]>>,
     config |-> [parses |-> TRUE, data |-> [name |-> <<"W">>, location |-> <<>>, url |-> <<>>]],
     cfiles |-> {}]

\* v: a config.json whose name is the empty string
GroupV ==
    [name |-> <<"v">>, isDir |-> TRUE,
     entries |-> <<[name |-> <<"a",".","j","p","g">>, isDir |-> FALSE, mtime |-> 1],
                    [name |-> config_json, isDir |-> FALSE, mtime |-> 1]>>,
     config |-> [parses |-> TRUE, data |-> [name |-> <<>>, location |-> <<"S">>]],
     cfiles |-> {}]

Top(name, isDir, groups) == [name |-> name, isDir |-> isDir, groups |-> groups]

Day1 == <<"2","0","2","4","-","0","1","-","0","1">>

Day2 == <<"2","0","2","4","-","0","2","-","2","9">>

\* names of top-level directories that are no date
BadDateNames ==
    { <<"2","0","2","4","-","0","2","-","3","0">>, <<"2","0","2","3","-","0","2","-","2","9">>, <<"2","0","2","4","-","1","3","-","0","1">>,
      <<"2","0","2","4","-","0","0","-","1","0">>, <<"2","0","2","4","-","0","4","-","3","1">>, <<"0","0","0","0","-","0","1","-","0","1">>,
      <<"2","0","2","4","-","1","-","1">>, <<"m","i","s","c">>,
      <<"2","0","2","4","-","0","1","-","0","1","\n">> }

\* collections that hold a top-level directory of a bad name
BadDateCollections ==
    { << Top(Day1, TRUE, <<GroupB>>), Top(n, TRUE, <<GroupL>>) >> : n \in BadDateNames }
    \cup { << Top(n, TRUE, <<GroupB>>) >> : n \in BadDateNames }

Collections ==
    { \* two well-formed groups of one date
      << Top(Day1, TRUE, <<GroupB, GroupL>>) >>,
      \* two directories of the same name under two dates
      << Top(Day1, TRUE, <<GroupB2>>), Top(Day2, TRUE, <<GroupB>>) >>,
      \* entries discovery passes over
      << Top(<<".","g","i","t">>, TRUE, <<GroupB>>), Top(<<"n",".","t","x","t">>, FALSE, <<>>),
         Top(Day1, TRUE, <<GroupEmpty, GroupReserved, GroupHidden, GroupFile, GroupX>>) >>,
      \* malformed groups
      << Top(Day1, TRUE, <<GroupNoCfg, GroupB, GroupBoth>>), Top(Day2, TRUE, <<GroupSub>>) >>,
      << Top(Day1, TRUE, <<GroupSub>>) >>,
      << Top(Day1, TRUE, <<GroupNoCfg>>) >>,
      << Top(Day1, TRUE, <<GroupDirImg>>) >>,
      \* a config.json that does not parse
      << Top(Day1, TRUE, <<GroupBadCfg, GroupDots>>) >>,
      \* nothing to process
      << Top(Day1, TRUE, <<GroupGif>>) >>,
      << Top(Day1, TRUE, <<GroupEmpty>>) >>,
      << >> }
    \cup BadDateCollections

\* the bucket before the first run: a stale object of the collection, an
\* object whose key only starts with the characters of base_path, and an
\* object of another namespace
InitialBucket == { <<"p","/","o",".","j","p","g">>, <<"p","X","/","k",".","j","p","g">>, <<"q","/","z",".","j","p","g">> }

\* the manifest file before the first run: one group of an earlier scan
InitialManifest ==
    [valid |-> TRUE,
     groups |-> << [id |-> <<"z">>, title |-> <<"Z">>, description |-> <<"Z"," ","o","n"," ","2","0","2","4","-","0","1","-","0","1",".">>,
                    date_captured |-> Day1,
                    images |-> << [compressed |-> <<"p","/","o",".","j","p","g">>] >>,
                    coverImage |-> <<"p","/","o",".","j","p","g">>, featured_image |-> <<>>] >>]

\* a manifest file that a failed write left truncated
PartialManifest == [valid |-> FALSE, groups |-> <<>>]

MaxRuns == 2

MaxFaults == 2

NoErrors == [missing_config |-> <<>>, has_subdirectories |-> <<>>]

Init ==
    /\ fs \in Collections
    /\ bucket = InitialBucket
    /\ manifest = InitialManifest
    /\ gallery_config = <<>>
    /\ pc = "idle"
    /\ run = 0
    /\ clock = 1
    /\ faults = 0
    /\ exit_code = "none"
    /\ group_dirs = <<>>
    /\ validation_errors = NoErrors
    /\ purge_result = "none"
    /\ gi = 0
    /\ li = 0
    /\ image_files = <<>>
    /\ ui = 0
    /\ log = <<>>
    /\ prev = [run |-> 0, fs |-> fs, bucket |-> bucket, manifest |-> manifest,
               exit_code |-> "none"]

\* os.path.basename(source_dir)
current_group_id(source_dir) == source_dir[Len(source_dir)]

\* the collection with the group directory at path replaced by g
WithGroup(f, path, g) ==
    LET i == CHOOSE i \in 1..Len(f) : f[i].name = path[2]
        j == CHOOSE j \in 1..Len(f[i].groups) : f[i].groups[j].name = path[3]
    IN  [f EXCEPT ![i].groups[j] = g]

\* main() calls process_group: the components are constructed anew (lines
\* 203-206), GalleryManager.__init__ included
StartRun ==
    /\ pc \in {"idle", "done"}
    /\ run < MaxRuns
    /\ run' = run + 1
    /\ clock' = clock + 1
    /\ pc' = "discover"
    /\ exit_code' = "none"
    /\ gallery_config' = <<>>
    /\ group_dirs' = <<>>
    /\ validation_errors' = NoErrors
    /\ purge_result' = "none"
    /\ gi' = 0
    /\ li' = 0
    /\ ui' = 0
    /\ image_files' = <<>>
    /\ log' = <<>>
    /\ prev' = [run |-> run, fs |-> fs, bucket |-> bucket, manifest |-> manifest,
                exit_code |-> exit_code]
    /\ UNCHANGED << fs, bucket, manifest, faults >>

\* lines 212-217
Discover ==
    /\ pc = "discover"
    /\ LET found == discover_group_directories(fs)
       IN  IF found.raised
           THEN /\ pc' = "done"
                /\ exit_code' = "1"
                /\ group_dirs' = group_dirs
           ELSE IF found.dirs = <<>>
           THEN /\ pc' = "done"
                /\ exit_code' = "0"
                /\ group_dirs' = found.dirs
           ELSE /\ pc' = "validate"
                /\ exit_code' = exit_code
                /\ group_dirs' = found.dirs
    /\ UNCHANGED << fs, bucket, manifest, gallery_config, run, clock, faults,
                    validation_errors, purge_result, gi, li, image_files, ui, log, prev >>

\* a validation that reports and goes on
ValidateWarning ==
    /\ pc = "validate"
    /\ validation_errors' = validate_group_directories(fs, group_dirs)
    /\ pc' = "regenerate"
    /\ UNCHANGED << fs, bucket, manifest, gallery_config, run, clock, faults, exit_code,
                    group_dirs, purge_result, gi, li, image_files, ui, log, prev >>

\* lines 220-241
Validate ==
    /\ pc = "validate"
    /\ validation_errors' = validate_group_directories(fs, group_dirs)
    /\ LET has_errors == \/ validation_errors'.missing_config # <<>>
                         \/ validation_errors'.has_subdirectories # <<>>
       IN  IF has_errors
           THEN pc' = "done" /\ exit_code' = "1"
           ELSE pc' = "regenerate" /\ exit_code' = exit_code
    /\ UNCHANGED << fs, bucket, manifest, gallery_config, run, clock, faults,
                    group_dirs, purge_result, gi, li, image_files, ui, log, prev >>

\* GalleryManager._save_config succeeds: the file holds the in-memory groups
SaveOk(groups, dir) ==
    /\ manifest' = [valid |-> TRUE, groups |-> groups]
    /\ log' = Append(log, [op |-> "save", dir |-> dir, ok |-> TRUE])
    /\ faults' = faults

\* a failed manifest write that is logged and absorbed: the run goes on
SaveFailsAbsorbed(dir) ==
    /\ faults < MaxFaults
    /\ faults' = faults + 1
    /\ \/ manifest' = manifest
       \/ manifest' = PartialManifest
    /\ log' = Append(log, [op |-> "save", dir |-> dir, ok |-> FALSE])
    /\ pc' = IF pc = "regenerate" THEN "purge" ELSE "group"
    /\ exit_code' = exit_code

\* GalleryManager._save_config raises: the file is untouched (makedirs or
\* open failed) or truncated (json.dump failed), and the exception reaches
\* main
SaveFails(dir) ==
    /\ faults < MaxFaults
    /\ faults' = faults + 1
    /\ \/ manifest' = manifest
       \/ manifest' = PartialManifest
    /\ log' = Append(log, [op |-> "save", dir |-> dir, ok |-> FALSE])
    /\ pc' = "done"
    /\ exit_code' = "1"

\* line 245: gallery_manager.regenerate_from_groups(group_dirs)
Regenerate ==
    /\ pc = "regenerate"
    /\ gallery_config' = regenerate_from_groups(fs, group_dirs)
    /\ \/ /\ SaveOk(gallery_config', <<>>)
          /\ pc' = "purge"
          /\ exit_code' = exit_code
       \/ SaveFails(<<>>)
    /\ UNCHANGED << fs, bucket, run, clock, group_dirs, validation_errors,
                    purge_result, gi, li, image_files, ui, prev >>

\* lines 249-250: s3_uploader.delete_collection().  The objects listed fit
\* one batch of delete_objects.
Purge ==
    /\ pc = "purge"
    /\ LET objs == objects_to_delete(bucket)
       IN  /\ Cardinality(objs) <= batch_size
           /\ \/ \* the listing and the delete request succeed
                 /\ bucket' = bucket \ objs
                 /\ log' = IF objs = {} THEN log
                           ELSE Append(log, [op |-> "delete", keys |-> objs])
                 /\ purge_result' = "ok"
                 /\ faults' = faults
              \/ \* the listing raises
                 /\ faults < MaxFaults
                 /\ faults' = faults + 1
                 /\ bucket' = bucket
                 /\ log' = log
                 /\ purge_result' = "failed"
              \/ \* delete_objects raises or answers with Errors: some of
                 \* the listed objects are deleted
                 /\ faults < MaxFaults
                 /\ faults' = faults + 1
                 /\ objs # {}
                 /\ \E deleted \in SUBSET objs : bucket' = bucket \ deleted
                 /\ log' = Append(log, [op |-> "delete", keys |-> objs])
                 /\ purge_result' = "failed"
    /\ pc' = "group"
    /\ gi' = 1
    /\ UNCHANGED << fs, manifest, gallery_config, run, clock, exit_code, group_dirs,
                    validation_errors, li, image_files, ui, prev >>

\* lines 255-263: the next source_dir, its 'compressed' directory created
\* when missing
BeginGroup ==
    /\ pc = "group"
    /\ gi <= Len(group_dirs)
    /\ LET source_dir == group_dirs[gi]
           g == GroupAt(fs, source_dir)
       IN  IF ~HasEntry(g, compressed_name)
           THEN /\ fs' = WithGroup(fs, source_dir,
                            [g EXCEPT !.entries =
                                Append(@, [name |-> compressed_name, isDir |-> TRUE,
                                           mtime |-> clock])])
                /\ log' = Append(log, [op |-> "mkdir", dir |-> source_dir])
           ELSE fs' = fs /\ log' = log
    /\ pc' = "compress"
    /\ li' = 1
    /\ image_files' = <<>>
    /\ UNCHANGED << bucket, manifest, gallery_config, run, clock, faults, exit_code,
                    group_dirs, validation_errors, purge_result, gi, ui, prev >>

\* an artifact of the same modification time is taken for stale
IsFreshStrict(g, filename, input_mtime) ==
    \E c \in g.cfiles :
        c.name = compressed_filename_of(filename) /\ c.mtime > input_mtime

\* the cached artifact is up to date (lines 279-284)
IsFresh(g, filename, input_mtime) ==
    \E c \in g.cfiles :
        c.name = compressed_filename_of(filename) /\ c.mtime >= input_mtime

file_info_of(filename) ==
    [filename |-> filename, compressed_filename |-> compressed_filename_of(filename)]

\* one iteration that uploads each artifact as soon as the codec has written it
CompressThenUpload ==
    /\ pc = "compress"
    /\ LET source_dir == group_dirs[gi]
           g == GroupAt(fs, source_dir)
       IN  /\ li <= Len(g.entries)
           /\ LET filename == g.entries[li].name
                  out == compressed_filename_of(filename)
                  key == get_s3_keys_compressed(current_group_id(source_dir),
                                                filename, out)
              IN  IF ~is_valid_image(filename)
                  THEN UNCHANGED << fs, image_files, log, bucket >>
                  ELSE /\ fs' = WithGroup(fs, source_dir,
                                  [g EXCEPT !.cfiles =
                                     { c \in @ : c.name # out }
                                     \cup { [name |-> out, mtime |-> clock] }])
                       /\ log' = log \o
                             << [op |-> "codec", dir |-> source_dir, file |-> filename,
                                 out |-> out, ok |-> TRUE],
                                [op |-> "upload", dir |-> source_dir, file |-> filename,
                                 key |-> key, ok |-> TRUE] >>
                       /\ bucket' = bucket \cup {key}
                       /\ image_files' = image_files
    /\ li' = li + 1
    /\ UNCHANGED << manifest, gallery_config, pc, run, clock, exit_code, faults,
                    group_dirs, validation_errors, purge_result, gi, ui, prev >>

\* lines 269-306: one iteration of the loop over os.listdir(source_dir).
\* The codec fails on an input it cannot read, before it writes anything.
Compress ==
    /\ pc = "compress"
    /\ LET source_dir == group_dirs[gi]
           g == GroupAt(fs, source_dir)
       IN  /\ li <= Len(g.entries)
           /\ LET filename == g.entries[li].name
                  out == compressed_filename_of(filename)
              IN  IF ~is_valid_image(filename)
                  THEN UNCHANGED << fs, image_files, log, faults >>
                  ELSE IF IsFresh(g, filename, g.entries[li].mtime)
                  THEN /\ image_files' = Append(image_files, file_info_of(filename))
                       /\ UNCHANGED << fs, log, faults >>
                  ELSE \/ \* process_image returns True
                          /\ fs' = WithGroup(fs, source_dir,
                                     [g EXCEPT !.cfiles =
                                        { c \in @ : c.name # out }
                                        \cup { [name |-> out, mtime |-> clock] }])
                          /\ log' = Append(log, [op |-> "codec", dir |-> source_dir,
                                                 file |-> filename, out |-> out,
                                                 ok |-> TRUE])
                          /\ image_files' = Append(image_files, file_info_of(filename))
                          /\ faults' = faults
                       \/ \* process_image returns False
                          /\ faults < MaxFaults
                          /\ faults' = faults + 1
                          /\ log' = Append(log, [op |-> "codec", dir |-> source_dir,
                                                 file |-> filename, out |-> out,
                                                 ok |-> FALSE])
                          /\ UNCHANGED << fs, image_files >>
    /\ li' = li + 1
    /\ UNCHANGED << bucket, manifest, gallery_config, pc, run, clock, exit_code,
                    group_dirs, validation_errors, purge_result, gi, ui, prev >>

\* line 308: the listing is exhausted
CompressEnd ==
    /\ pc = "compress"
    /\ li > Len(GroupAt(fs, group_dirs[gi]).entries)
    /\ pc' = "upload"
    /\ ui' = 1
    /\ UNCHANGED << fs, bucket, manifest, gallery_config, run, clock, faults, exit_code,
                    group_dirs, validation_errors, purge_result, gi, li, image_files,
                    log, prev >>

\* an upload whose failure is not noticed: the key is kept either way
UploadUnchecked ==
    /\ pc = "upload"
    /\ ui <= Len(image_files)
    /\ LET source_dir == group_dirs[gi]
           file_info == image_files[ui]
           key == get_s3_keys_compressed(current_group_id(source_dir),
                        file_info.filename, file_info.compressed_filename)
       IN  /\ image_files' = [image_files EXCEPT ![ui] =
                    [filename |-> file_info.filename,
                     compressed_filename |-> file_info.compressed_filename,
                     compressed_s3_key |-> key]]
           /\ \/ /\ bucket' = bucket \cup {key}
                 /\ log' = Append(log, [op |-> "upload", dir |-> source_dir,
                                        file |-> file_info.filename, key |-> key,
                                        ok |-> TRUE])
                 /\ faults' = faults
              \/ /\ faults < MaxFaults
                 /\ faults' = faults + 1
                 /\ log' = Append(log, [op |-> "upload", dir |-> source_dir,
                                        file |-> file_info.filename, key |-> key,
                                        ok |-> FALSE])
                 /\ bucket' = bucket
    /\ ui' = ui + 1
    /\ UNCHANGED << fs, manifest, gallery_config, pc, run, clock, exit_code, group_dirs,
                    validation_errors, purge_result, gi, li, prev >>

\* lines 312-326: one iteration of the loop over image_files
Upload ==
    /\ pc = "upload"
    /\ ui <= Len(image_files)
    /\ LET source_dir == group_dirs[gi]
           file_info == image_files[ui]
           key == get_s3_keys_compressed(current_group_id(source_dir),
                        file_info.filename, file_info.compressed_filename)
       IN  \/ \* upload_file returns the URL
              /\ bucket' = bucket \cup {key}
              /\ image_files' = [image_files EXCEPT ![ui] =
                    [filename |-> file_info.filename,
                     compressed_filename |-> file_info.compressed_filename,
                     compressed_s3_key |-> key]]
              /\ log' = Append(log, [op |-> "upload", dir |-> source_dir,
                                     file |-> file_info.filename, key |-> key,
                                     ok |-> TRUE])
              /\ faults' = faults
           \/ \* upload_file returns None
              /\ faults < MaxFaults
              /\ faults' = faults + 1
              /\ log' = Append(log, [op |-> "upload", dir |-> source_dir,
                                     file |-> file_info.filename, key |-> key,
                                     ok |-> FALSE])
              /\ UNCHANGED << bucket, image_files >>
    /\ ui' = ui + 1
    /\ UNCHANGED << fs, manifest, gallery_config, pc, run, clock, exit_code, group_dirs,
                    validation_errors, purge_result, gi, li, prev >>

\* line 335: every file_info has been tried
UploadEnd ==
    /\ pc = "upload"
    /\ ui > Len(image_files)
    /\ pc' = "update"
    /\ UNCHANGED << fs, bucket, manifest, gallery_config, run, clock, faults, exit_code,
                    group_dirs, validation_errors, purge_result, gi, li, image_files,
                    ui, log, prev >>

\* lines 329-333: processed_images
processed_images_of(files) ==
    LET Done(file_info) == "compressed_s3_key" \in DOMAIN file_info
        done == SelectSeq(files, Done)
    IN  [k \in 1..Len(done) |-> [compressed |-> done[k].compressed_s3_key]]

\* lines 341-344: the manifest entry of the group is updated and saved
UpdateManifest ==
    /\ pc = "update"
    /\ LET source_dir == group_dirs[gi]
           group_id == current_group_id(source_dir)
           processed_images == processed_images_of(image_files)
           found == get_group(gallery_config, group_id) # 0
       IN  \/ \* nothing processed, or the warning of line 97: no save
              /\ processed_images = <<>> \/ ~found
              /\ UNCHANGED << gallery_config, manifest, log, faults, exit_code >>
              /\ pc' = "group"
           \/ /\ processed_images # <<>> /\ found
              /\ gallery_config' =
                    update_group_images(gallery_config, group_id, processed_images)
              /\ \/ /\ SaveOk(gallery_config', source_dir)
                    /\ pc' = "group"
                    /\ exit_code' = exit_code
                 \/ SaveFails(source_dir)
    /\ gi' = gi + 1
    /\ UNCHANGED << fs, bucket, run, clock, group_dirs, validation_errors,
                    purge_result, li, image_files, ui, prev >>

\* a purge issued once more when the loop over source_dirs is over
FinishPurging ==
    /\ pc = "group"
    /\ gi > Len(group_dirs)
    /\ pc' = "done"
    /\ exit_code' = "0"
    /\ bucket' = bucket \ objects_to_delete(bucket)
    /\ log' = Append(log, [op |-> "delete", keys |-> objects_to_delete(bucket)])
    /\ UNCHANGED << fs, manifest, gallery_config, run, clock, faults,
                    group_dirs, validation_errors, purge_result, gi, li, image_files,
                    ui, prev >>

\* the loop over source_dirs is over: process_group returns, exit status 0
Finish ==
    /\ pc = "group"
    /\ gi > Len(group_dirs)
    /\ pc' = "done"
    /\ exit_code' = "0"
    /\ UNCHANGED << fs, bucket, manifest, gallery_config, run, clock, faults,
                    group_dirs, validation_errors, purge_result, gi, li, image_files,
                    ui, log, prev >>

Next ==
    \/ StartRun
    \/ Discover
    \/ Validate
    \/ Regenerate
    \/ Purge
    \/ BeginGroup
    \/ Compress
    \/ CompressEnd
    \/ Upload
    \/ UploadEnd
    \/ UpdateManifest
    \/ Finish

Spec == Init /\ [][Next]_vars

(***************************************************************************)
(* Properties of a run of process_group.                                   *)
(***************************************************************************)
\* the effects of the current run that write the manifest or change the bucket
RemoteOrManifestEvents ==
    { k \in 1..Len(log) : log[k].op \in {"save", "delete", "upload"} }

\* a non-hidden top-level directory whose name is no date
HasBadDateBucket(f) ==
    \E i \in 1..Len(f) :
        f[i].isDir /\ ~IsHidden(f[i].name) /\ f[i].name \in BadDateNames

\* C1: in a collection that holds a non-hidden top-level directory whose name
\* does not match YYYY-MM-DD or is no calendar date, every run aborts
\* (exit status 1, never past discovery) with no manifest write, no remote
\* delete and no upload: the manifest file and the bucket stay as they were.
C1_BadDateAbortsUnmutated ==
    HasBadDateBucket(fs) =>
        /\ pc \in {"idle", "discover", "done"}
        /\ pc = "done" => exit_code = "1"
        /\ RemoteOrManifestEvents = {}
        /\ manifest = prev.manifest
        /\ bucket = prev.bucket

Feb30 == <<"2","0","2","4","-","0","2","-","3","0">>

\* a run has aborted on 2024-02-30, listed after a well-formed date directory
C1_Witness ==
    /\ pc = "done"
    /\ exit_code = "1"
    /\ Len(fs) = 2
    /\ fs[1].name = Day1
    /\ fs[2].name = Feb30
    /\ fs[2].isDir

\* the group directory lacks config.json
LacksConfig(g) == \A k \in 1..Len(g.entries) : g.entries[k].name # config_json

\* the group directory holds a subdirectory other than 'compressed'
HoldsForeignSubdirectory(g) ==
    \E k \in 1..Len(g.entries) :
        g.entries[k].isDir /\ g.entries[k].name # compressed_name

\* the discovered directories that are malformed
MalformedDirs ==
    { k \in 1..Len(group_dirs) :
        \/ LacksConfig(GroupAt(fs, group_dirs[k]))
        \/ HoldsForeignSubdirectory(GroupAt(fs, group_dirs[k])) }

\* C2: when a discovered group directory lacks config.json or holds a
\* subdirectory other than 'compressed', the run aborts (exit status 1) before
\* any mutation: nothing is logged (no manifest write, no purge, no upload,
\* no codec invocation, no 'compressed' directory created) and the files, the
\* manifest and the bucket are as they were when the run started.
C2_MalformedGroupAbortsUnmutated ==
    MalformedDirs # {} =>
        /\ pc \in {"validate", "done"}
        /\ pc = "done" => exit_code = "1"
        /\ log = <<>>
        /\ fs = prev.fs
        /\ manifest = prev.manifest
        /\ bucket = prev.bucket

\* a run has aborted in validation on a group that only holds a disallowed
\* subdirectory
C2_Witness ==
    /\ pc = "done"
    /\ exit_code = "1"
    /\ validation_errors.missing_config = <<>>
    /\ validation_errors.has_subdirectories # <<>>

\* validation has run in the current run
Validated == pc \notin {"idle", "discover", "validate"} /\ group_dirs # <<>>

Elems(seq) == { seq[k] : k \in 1..Len(seq) }

\* C3: after validation, missing_config holds exactly the discovered
\* directories without config.json and has_subdirectories exactly those with
\* a subdirectory other than 'compressed', each once.
C3_ValidationReportsAll ==
    Validated =>
        /\ Elems(validation_errors.missing_config) =
              { d \in Elems(group_dirs) : LacksConfig(GroupAt(fs, d)) }
        /\ Elems(validation_errors.has_subdirectories) =
              { d \in Elems(group_dirs) : HoldsForeignSubdirectory(GroupAt(fs, d)) }
        /\ Len(validation_errors.missing_config) =
              Cardinality(Elems(validation_errors.missing_config))
        /\ Len(validation_errors.has_subdirectories) =
              Cardinality(Elems(validation_errors.has_subdirectories))

\* two groups lack config.json and two hold a subdirectory: two entries each
C3_Witness ==
    /\ Validated
    /\ Len(validation_errors.missing_config) = 2
    /\ Len(validation_errors.has_subdirectories) = 2

\* discovery has returned in the current run
Discovered == pc \notin {"idle", "discover"} /\ ~HasBadDateBucket(fs)

\* the name has one of the recognised image extensions, whatever its case
HasImageExtension(name) == \E ext \in image_extensions : endswith(lower(name), ext)

\* C4: for every date directory scanned, a second-level entry is in the
\* result of discovery if and only if it is a directory, is not hidden, is
\* not named 'compressed' and holds at least one file of a recognised image
\* extension (case-insensitive).
C4_DiscoveryExact ==
    Discovered =>
        \A i \in 1..Len(fs) :
            (fs[i].isDir /\ ~IsHidden(fs[i].name)) =>
                \A j \in 1..Len(fs[i].groups) :
                    LET e == fs[i].groups[j]
                    IN  (<<collection_root, fs[i].name, e.name>> \in Elems(group_dirs))
                        <=> /\ e.isDir
                            /\ ~IsHidden(e.name)
                            /\ e.name # compressed_name
                            /\ \E k \in 1..Len(e.entries) :
                                  /\ ~e.entries[k].isDir
                                  /\ HasImageExtension(e.entries[k].name)

\* what discovery does: the same with "entry" (a file or a subdirectory) for
\* "file"
DiscoveryExactOnEntries ==
    Discovered =>
        \A i \in 1..Len(fs) :
            (fs[i].isDir /\ ~IsHidden(fs[i].name)) =>
                \A j \in 1..Len(fs[i].groups) :
                    LET e == fs[i].groups[j]
                    IN  (<<collection_root, fs[i].name, e.name>> \in Elems(group_dirs))
                        <=> /\ e.isDir
                            /\ ~IsHidden(e.name)
                            /\ e.name # compressed_name
                            /\ \E k \in 1..Len(e.entries) :
                                  HasImageExtension(e.entries[k].name)

\* the compress loop of the k-th source_dir is over
CompressDone(k) == k < gi \/ (k = gi /\ pc \in {"upload", "update"})

\* the codec invocations of the current run for a file of a directory
CodecCalls(dir, filename) ==
    { n \in 1..Len(log) :
        log[n].op = "codec" /\ log[n].dir = dir /\ log[n].file = filename }

\* when the run started, the compressed artifact of the file existed with a
\* modification time not older than the original's
FreshAtStart(dir, k) ==
    LET g0 == GroupAt(prev.fs, dir)
    IN  \E c \in g0.cfiles :
            /\ c.name = compressed_filename_of(g0.entries[k].name)
            /\ c.mtime >= g0.entries[k].mtime

\* C5: for every image of a group whose compress loop is over: if its
\* compressed artifact was fresh (present, mtime >= the original's) the codec
\* was not invoked for it in the run; otherwise the codec was invoked exactly
\* once for it, and when that invocation succeeds the artifact is at the
\* compressed path with the time of the run.
C5_CacheDecidesCodec ==
    \A k \in 1..Len(group_dirs) :
        CompressDone(k) =>
            LET dir == group_dirs[k]
                g == GroupAt(fs, dir)
            IN  \A e \in 1..Len(GroupAt(prev.fs, dir).entries) :
                    is_valid_image(g.entries[e].name) =>
                        LET calls == CodecCalls(dir, g.entries[e].name)
                        IN  IF FreshAtStart(dir, e)
                            THEN calls = {}
                            ELSE /\ Cardinality(calls) = 1
                                 /\ \A n \in calls :
                                      log[n].ok =>
                                        [name |-> compressed_filename_of(g.entries[e].name),
                                         mtime |-> clock] \in g.cfiles

\* a run is over in which a fresh artifact was reused, a stale one was
\* regenerated and a missing one was created
C5_Witness ==
    /\ pc = "done"
    /\ exit_code = "0"
    /\ \E k \in 1..Len(group_dirs) :
          LET dir == group_dirs[k]
              g0 == GroupAt(prev.fs, dir)
          IN  \E a, b \in 1..Len(g0.entries) :
                /\ is_valid_image(g0.entries[a].name)
                /\ is_valid_image(g0.entries[b].name)
                /\ FreshAtStart(dir, a)
                /\ CodecCalls(dir, g0.entries[a].name) = {}
                /\ ~FreshAtStart(dir, b)
                /\ \E c \in g0.cfiles :
                      c.name = compressed_filename_of(g0.entries[b].name)
                /\ Cardinality(CodecCalls(dir, g0.entries[b].name)) = 1

\* C6: when a run ends and neither it nor any run before it met a failure
\* (codec, upload, purge, write), the manifest file and the set of keys in
\* the bucket are those the previous run left.
C6_SecondRunChangesNothing ==
    (pc = "done" /\ run >= 2 /\ faults = 0) =>
        /\ manifest = prev.manifest
        /\ bucket = prev.bucket

\* the second run of a collection of two groups is over, without a failure,
\* and the manifest is the rebuilt one
C6_Witness ==
    /\ pc = "done"
    /\ run = 2
    /\ faults = 0
    /\ exit_code = "0"
    /\ prev.exit_code = "0"
    /\ Len(manifest.groups) = 2
    /\ \A i \in 1..2 : manifest.groups[i].images # <<>>
    /\ manifest = prev.manifest

\* the failures of the current run: a manifest write, a codec call or an
\* upload that did not succeed
FailedEvents ==
    { k \in 1..Len(log) : log[k].op \in {"save", "codec", "upload"} /\ ~log[k].ok }

\* the only failure of the run that is over is event k, and the purge succeeded
OnlyFailure(k) ==
    /\ pc = "done"
    /\ FailedEvents = {k}
    /\ purge_result = "ok"

\* the names of the images of a group directory that the pipeline processes
ImagesOf(source_dir) ==
    LET g == GroupAt(fs, source_dir)
    IN  { g.entries[i].name : i \in { j \in 1..Len(g.entries) :
                                        is_valid_image(g.entries[j].name) } }

\* the manifest entries of a group directory: its name and its date
EntriesOf(source_dir) ==
    { k \in 1..Len(manifest.groups) :
        /\ manifest.groups[k].id = source_dir[Len(source_dir)]
        /\ manifest.groups[k].date_captured = source_dir[Len(source_dir) - 1] }

\* the keys of the images of a manifest entry
KeysOf(entry) == { entry.images[i].compressed : i \in 1..Len(entry.images) }

\* the image of that directory was uploaded during the run
UploadedFrom(source_dir, filename) ==
    \E k \in 1..Len(log) :
        /\ log[k].op = "upload"
        /\ log[k].dir = source_dir
        /\ log[k].file = filename
        /\ log[k].ok

\* the image of that directory has an artifact in its 'compressed' directory
CompressedIn(source_dir, filename) ==
    \E c \in GroupAt(fs, source_dir).cfiles : c.name = compressed_filename_of(filename)

\* C9: when the only failure of a run is the codec failing on one image of a
\* group directory of N images, the run ends with exit status 0, the manifest
\* entry of that directory holds exactly N-1 images, and every other image of
\* the directory is compressed and uploaded.
C9_CodecFailureSkipsOneImage ==
    \A k \in 1..Len(log) :
        (OnlyFailure(k) /\ log[k].op = "codec") =>
            LET source_dir == log[k].dir
            IN  /\ exit_code = "0"
                /\ manifest.valid
                /\ EntriesOf(source_dir) # {}
                /\ \A e \in EntriesOf(source_dir) :
                      Len(manifest.groups[e].images) =
                          Cardinality(ImagesOf(source_dir)) - 1
                /\ \A f \in ImagesOf(source_dir) \ {log[k].file} :
                      CompressedIn(source_dir, f) /\ UploadedFrom(source_dir, f)

\* C10: when the only failure of a run is the upload of one image, the key of
\* that image is in no image list of the manifest entry of its group
\* directory, every other image of the directory is uploaded, and the key of
\* every image uploaded from the directory is in the manifest entry of the
\* directory.
C10_UploadFailureExcludesOneImage ==
    \A k \in 1..Len(log) :
        (OnlyFailure(k) /\ log[k].op = "upload") =>
            LET source_dir == log[k].dir
            IN  /\ manifest.valid
                /\ \A e \in EntriesOf(source_dir) :
                      log[k].key \notin KeysOf(manifest.groups[e])
                /\ \A f \in ImagesOf(source_dir) \ {log[k].file} :
                      UploadedFrom(source_dir, f)
                /\ \A j \in 1..Len(log) :
                      (log[j].op = "upload" /\ log[j].dir = source_dir /\ log[j].ok)
                          => \E e \in EntriesOf(source_dir) :
                                log[j].key \in KeysOf(manifest.groups[e])

(***************************************************************************)
(* The GalleryManager alone: any sequence of regenerate_from_groups and    *)
(* update_group_images calls on one GalleryManager, over a fixed           *)
(* collection.  log holds the last call, and for regenerate_from_groups    *)
(* the groups that were in memory before it.  Image entries are those of the   *)
(* manifest: a 'compressed' key only.                                      *)
(***************************************************************************)
ApiCollection ==
    << Top(Day1, TRUE, <<GroupB, GroupL, GroupX, GroupDots, GroupBadCfg, GroupW, GroupNoCfg>>),
       Top(Day2, TRUE, <<GroupB2, GroupV>>) >>

ApiDir(date, g) == <<collection_root, date, g.name>>

\* the arguments of regenerate_from_groups
ApiDirLists ==
    { << ApiDir(Day1, GroupB), ApiDir(Day1, GroupNoCfg), ApiDir(Day2, GroupB2) >>,
      << ApiDir(Day1, GroupL), ApiDir(Day1, GroupX) >>,
      << ApiDir(Day1, GroupBadCfg), ApiDir(Day1, GroupDots) >>,
      << ApiDir(Day1, GroupW), ApiDir(Day2, GroupV) >> }

\* the group_id arguments of update_group_images
ApiGroupIds == { GroupB.name, GroupL.name, GroupX.name, GroupDots.name }

\* the keys of the image entries passed to update_group_images: two of the
\* same stem and one of another
KeyXJpg == <<"p","/","x","/","c","o","m","p","r","e","s","s","e","d","/","x","-","c","o","m","p","r","e","s","s","e","d",".","j","p","g">>

KeyXPng == <<"p","/","x","/","c","o","m","p","r","e","s","s","e","d","/","x","-","c","o","m","p","r","e","s","s","e","d",".","p","n","g">>

KeyAJpg == <<"p","/","x","/","c","o","m","p","r","e","s","s","e","d","/","a","-","c","o","m","p","r","e","s","s","e","d",".","j","p","g">>

Img(key) == [compressed |-> key]

\* the images arguments of update_group_images
ApiImageLists ==
    { <<>>,
      << Img(KeyAJpg) >>,
      << Img(KeyXPng) >>,
      << Img(KeyAJpg), Img(KeyXPng) >>,
      << Img(KeyXPng), Img(KeyAJpg) >>,
      << Img(KeyXJpg), Img(KeyXPng) >>,
      << Img(KeyXPng), Img(KeyXJpg) >>,
      << Img(KeyAJpg), Img(KeyAJpg), Img(KeyXJpg) >>,
      << Img(KeyAJpg), Img(KeyXPng), Img(KeyXJpg) >> }

InitApi ==
    /\ fs = ApiCollection
    /\ bucket = InitialBucket
    /\ manifest = InitialManifest
    /\ gallery_config = <<>>
    /\ pc = "api"
    /\ run = 0
    /\ clock = 1
    /\ faults = 0
    /\ exit_code = "none"
    /\ group_dirs = <<>>
    /\ validation_errors = NoErrors
    /\ purge_result = "none"
    /\ gi = 0
    /\ li = 0
    /\ image_files = <<>>
    /\ ui = 0
    /\ log = <<>>
    /\ prev = [run |-> 0, fs |-> fs, bucket |-> bucket, manifest |-> manifest,
               exit_code |-> "none"]

\* GalleryManager.regenerate_from_groups(group_directories), saved
ApiRegenerate ==
    /\ pc = "api"
    /\ \E dirs \in ApiDirLists :
          /\ gallery_config' = regenerate_from_groups(fs, dirs)
          /\ log' = << [op |-> "regenerate", dirs |-> dirs, before |-> gallery_config] >>
    /\ manifest' = [valid |-> TRUE, groups |-> gallery_config']
    /\ UNCHANGED << fs, bucket, pc, run, clock, faults, exit_code, group_dirs,
                    validation_errors, purge_result, gi, li, image_files, ui, prev >>

\* an update_group_images that changes the group in memory and writes no file
ApiUpdateUnsaved ==
    /\ pc = "api"
    /\ \E group_id \in ApiGroupIds, images \in ApiImageLists :
          /\ gallery_config' = update_group_images(gallery_config, group_id, images)
          /\ log' = << [op |-> "update", group_id |-> group_id, images |-> images,
                        found |-> get_group(gallery_config, group_id)] >>
    /\ UNCHANGED << fs, bucket, manifest, pc, run, clock, faults, exit_code, group_dirs,
                    validation_errors, purge_result, gi, li, image_files, ui, prev >>

\* GalleryManager.update_group_images(group_id, images): saved unless the
\* group is not found (the return of line 98)
ApiUpdate ==
    /\ pc = "api"
    /\ \E group_id \in ApiGroupIds, images \in ApiImageLists :
          /\ gallery_config' = update_group_images(gallery_config, group_id, images)
          /\ log' = << [op |-> "update", group_id |-> group_id, images |-> images,
                        found |-> get_group(gallery_config, group_id)] >>
          /\ manifest' = IF get_group(gallery_config, group_id) = 0 THEN manifest
                         ELSE [valid |-> TRUE, groups |-> gallery_config']
    /\ UNCHANGED << fs, bucket, pc, run, clock, faults, exit_code, group_dirs,
                    validation_errors, purge_result, gi, li, image_files, ui, prev >>

NextApi == ApiRegenerate \/ ApiUpdate

SpecApi == InitApi /\ [][NextApi]_vars

\* the last call was update_group_images, on a group that exists, with a
\* non-empty list of images
UpdatedWithImages ==
    /\ log # <<>>
    /\ log[1].op = "update"
    /\ log[1].found # 0
    /\ log[1].images # <<>>

\* a name without what follows its last '.'
StripExtension(name) ==
    IF \E i \in 1..Len(name) : name[i] = "." THEN SubSeq(name, 1, rfind(name, ".") - 1)
    ELSE name

\* the file name of a key, its extension and its '-compressed' suffix stripped
KeyStem(key) ==
    LET stem == StripExtension(SubSeq(key, rfind(key, "/") + 1, Len(key)))
    IN  IF endswith(stem, compressed_suffix)
        THEN SubSeq(stem, 1, Len(stem) - Len(compressed_suffix))
        ELSE stem

\* the n-th image of the last call matches the featured image F
StemMatches(n, F) == KeyStem(log[1].images[n].compressed) = StripExtension(F)

\* C7 as stated: after update_group_images on a group whose featured_image is
\* F, coverImage is the key of every entry of the list that matches the stem of
\* F, whatever its position.
C7_CoverIsAnyMatch ==
    UpdatedWithImages =>
        LET group == gallery_config[log[1].found]
            F == group.featured_image
        IN  F # <<>> =>
              \A n \in 1..Len(log[1].images) :
                  StemMatches(n, F) => group.coverImage = log[1].images[n].compressed

\* C7, amended: after update_group_images on a group whose featured_image is
\* F, with a list that holds an entry matching the stem of F, coverImage is the
\* key of the first such entry of the list, whatever its position.
C7_CoverIsFirstMatch ==
    UpdatedWithImages =>
        LET group == gallery_config[log[1].found]
            F == group.featured_image
        IN  F # <<>> =>
              \A n \in 1..Len(log[1].images) :
                  (StemMatches(n, F) /\ \A m \in 1..(n-1) : ~StemMatches(m, F))
                      => group.coverImage = log[1].images[n].compressed

\* the featured image is matched by the second entry only, and is the cover
C7_Witness ==
    /\ UpdatedWithImages
    /\ Len(log[1].images) = 2
    /\ gallery_config[log[1].found].featured_image # <<>>
    /\ ~StemMatches(1, gallery_config[log[1].found].featured_image)
    /\ StemMatches(2, gallery_config[log[1].found].featured_image)
    /\ gallery_config[log[1].found].coverImage = log[1].images[2].compressed
    /\ log[1].images[1].compressed # log[1].images[2].compressed

\* C8: after update_group_images with a non-empty list on a group whose
\* featured_image is empty or matched by no entry of the list, coverImage is
\* the key of the first entry.
C8_CoverFallsBackToFirst ==
    UpdatedWithImages =>
        LET group == gallery_config[log[1].found]
            F == group.featured_image
        IN  (F = <<>> \/ \A n \in 1..Len(log[1].images) : ~StemMatches(n, F))
                => group.coverImage = log[1].images[1].compressed

\* a featured image that no entry matches: the first entry is the cover
C8_Witness ==
    /\ UpdatedWithImages
    /\ Len(log[1].images) = 2
    /\ gallery_config[log[1].found].featured_image # <<>>
    /\ \A n \in 1..2 : ~StemMatches(n, gallery_config[log[1].found].featured_image)
    /\ gallery_config[log[1].found].coverImage = log[1].images[1].compressed
    /\ log[1].images[1].compressed # log[1].images[2].compressed

(***************************************************************************)
(* Phases, outcomes and the remote namespace of a run of process_group.    *)
(***************************************************************************)
\* the events of the current run with that op
EventsOf(op) == { k \in 1..Len(log) : log[k].op = op }

\* C11: in every run every remote delete request is issued before the first
\* upload of the run: no delete request follows an upload attempt.
C11_PurgeBeforeUploads ==
    \A d \in EventsOf("delete"), u \in EventsOf("upload") : d < u

\* a second run has deleted the objects of the first and uploaded again
C11_Witness ==
    /\ pc = "done"
    /\ run = 2
    /\ exit_code = "0"
    /\ EventsOf("delete") # {}
    /\ \E d \in EventsOf("delete") : \E k \in log[d].keys : Len(k) > 7
    /\ Cardinality(EventsOf("upload")) >= 2

\* the remote key of the compressed artifact of an image of a group directory
KeyOf(source_dir, filename) ==
    get_s3_keys_compressed(current_group_id(source_dir), filename,
                           compressed_filename_of(filename))

\* the image of that directory is in the bucket and in the manifest entry of
\* the directory
UploadedAndRecorded(source_dir, filename) ==
    /\ UploadedFrom(source_dir, filename)
    /\ KeyOf(source_dir, filename) \in bucket
    /\ \E e \in EntriesOf(source_dir) :
          KeyOf(source_dir, filename) \in KeysOf(manifest.groups[e])

\* C12: when the purge of a run fails (the listing, the delete request or some
\* keys of it) and nothing else does, the run ends with exit status 0 and
\* every image of every group directory is uploaded and recorded in the
\* manifest entry of its directory.
C12_PurgeFailureDoesNotBlock ==
    (pc = "done" /\ purge_result = "failed" /\ FailedEvents = {}) =>
        /\ exit_code = "0"
        /\ manifest.valid
        /\ \A d \in 1..Len(group_dirs) :
              \A f \in ImagesOf(group_dirs[d]) :
                  UploadedAndRecorded(group_dirs[d], f)

\* the objects of the remote namespace: the keys under base_path
RemoteNamespace == { k \in bucket : startswith(k, base_path \o slash) }

\* the remote keys of the artifacts in the 'compressed' directories of the
\* group directories of the scan
LocalCompressedKeys ==
    UNION { { get_s3_keys_compressed(current_group_id(group_dirs[d]), <<>>, c.name) :
                c \in GroupAt(fs, group_dirs[d]).cfiles } : d \in 1..Len(group_dirs) }

\* the run is over with exit status 0 and nothing in it failed
RunSucceededWithoutFailure ==
    /\ pc = "done"
    /\ exit_code = "0"
    /\ FailedEvents = {}
    /\ purge_result # "failed"

\* C13: after every run that ends with success and without any failure, a key
\* is in the remote namespace if and only if it is the remote key of an
\* artifact present in the 'compressed' directory of a group.
C13_RemoteMirrorsLocal ==
    RunSucceededWithoutFailure => RemoteNamespace = LocalCompressedKeys

\* the keys the persisted manifest refers to: the images of every entry and
\* every non-empty coverImage
ReferencedKeys ==
    UNION { KeysOf(manifest.groups[e]) \cup
            (IF manifest.groups[e].coverImage # <<>>
             THEN {manifest.groups[e].coverImage} ELSE {}) :
            e \in 1..Len(manifest.groups) }

\* C14: once a run has ended with exit status 0, the manifest file is whole
\* and every key it refers to (images and non-empty coverImage) is the key of
\* an object in the bucket.
C14_NoOrphanedReference ==
    (pc = "done" /\ exit_code = "0") =>
        /\ manifest.valid
        /\ ReferencedKeys \subseteq bucket

\* a run with a failed upload and a failed purge has ended with success, and
\* its manifest refers to the images of two groups
C14_Witness ==
    /\ pc = "done"
    /\ exit_code = "0"
    /\ purge_result = "failed"
    /\ \E k \in FailedEvents : log[k].op = "upload"
    /\ Len(manifest.groups) = 2
    /\ \A e \in 1..2 : manifest.groups[e].coverImage # <<>>

\* the manifest entry is that of a group directory of the scan of the run
InScan(entry) ==
    \E d \in 1..Len(group_dirs) :
        /\ entry.id = group_dirs[d][Len(group_dirs[d])]
        /\ entry.date_captured = group_dirs[d][Len(group_dirs[d]) - 1]

\* C15: after any run that ends with exit status 0, every entry of the
\* persisted manifest is that of a group directory found by the scan of that
\* run; when the scan finds no group the manifest has no entry.
C15_ManifestRebuiltNotMerged ==
    (pc = "done" /\ exit_code = "0") =>
        /\ manifest.valid
        /\ \A e \in 1..Len(manifest.groups) : InScan(manifest.groups[e])

\* a fatal condition of the run that is over: a top-level directory that is
\* no date, a malformed group directory, or a manifest write that failed
FatalCondition ==
    \/ HasBadDateBucket(fs)
    \/ MalformedDirs # {}
    \/ \E k \in FailedEvents : log[k].op = "save"

\* C16: the exit status of a run is 1 when the collection holds a top-level
\* directory that is no date or a malformed group directory, or a manifest
\* write failed; it is 0 otherwise, also after codec failures, upload
\* failures, a failed purge and groups without a processed image.
C16_ExitCode ==
    pc = "done" => (exit_code = IF FatalCondition THEN "1" ELSE "0")

\* a run with a failed codec call and a failed purge has ended with status 0
C16_Witness ==
    /\ pc = "done"
    /\ exit_code = "0"
    /\ purge_result = "failed"
    /\ \E k \in FailedEvents : log[k].op = "codec"
    /\ ~FatalCondition

\* C17: a manifest write that fails, in regenerate_from_groups or in
\* update_group_images, ends the run at once with exit status 1: it is the
\* last event of the run, and no further group is processed.
C17_SaveFailureIsFatal ==
    \A k \in EventsOf("save") :
        ~log[k].ok =>
            /\ k = Len(log)
            /\ pc = "done"
            /\ exit_code = "1"

\* the manifest write of the first of two groups has failed: the second group
\* was never begun
C17_Witness ==
    /\ pc = "done"
    /\ exit_code = "1"
    /\ Len(group_dirs) = 2
    /\ log # <<>>
    /\ log[Len(log)].op = "save"
    /\ ~log[Len(log)].ok
    /\ log[Len(log)].dir = group_dirs[1]
    /\ \A k \in EventsOf("codec") \cup EventsOf("upload") \cup EventsOf("mkdir") :
          log[k].dir = group_dirs[1]

(***************************************************************************)
(* The entries regenerate_from_groups builds.                              *)
(***************************************************************************)
\* the last call was regenerate_from_groups
Regenerated == log # <<>> /\ log[1].op = "regenerate"

\* the directory holds a config.json that json.load accepts
ReadableConfig(group_dir) ==
    /\ HasEntry(GroupAt(fs, group_dir), config_json)
    /\ GroupAt(fs, group_dir).config.parses

ConfigOf(group_dir) == GroupAt(fs, group_dir).config.data

\* the key is in config.json / is in config.json with a non-empty value
Present(cfg, key) == key \in DOMAIN cfg

NonEmpty(cfg, key) == key \in DOMAIN cfg /\ cfg[key] # <<>>

NameOf(group_dir) ==
    IF Present(ConfigOf(group_dir), "name") THEN ConfigOf(group_dir).name
    ELSE group_dir[Len(group_dir)]

At == <<" ","a","t"," ">>

On == <<" ","o","n"," ">>

\* what the entry of a directory holds whatever 'present' means: id, date,
\* title, featured_image, and no url that config.json does not give
EntryBasics(entry, group_dir) ==
    /\ entry.id = group_dir[Len(group_dir)]
    /\ entry.date_captured = group_dir[Len(group_dir) - 1]
    /\ entry.title = NameOf(group_dir)
    /\ entry.featured_image =
          (IF Present(ConfigOf(group_dir), "featured_image")
           THEN ConfigOf(group_dir).featured_image ELSE <<>>)
    /\ "url" \in DOMAIN entry =>
          /\ Present(ConfigOf(group_dir), "url")
          /\ entry.url = ConfigOf(group_dir).url

\* C18 as stated: the entry of every directory with a readable config.json has
\* id = directory name, date_captured = parent directory name, title = name
\* (the directory name when name is absent), description "{name} at
\* {location} on {date_captured}." when location is present and "{name} on
\* {date_captured}." otherwise, a url only if config.json has one, and the
\* featured_image of config.json.
C18_EntryFields ==
    Regenerated =>
        \A d \in 1..Len(log[1].dirs) :
            LET group_dir == log[1].dirs[d]
            IN  ReadableConfig(group_dir) =>
                  \E e \in 1..Len(gallery_config) :
                      /\ EntryBasics(gallery_config[e], group_dir)
                      /\ gallery_config[e].description =
                            (IF Present(ConfigOf(group_dir), "location")
                             THEN NameOf(group_dir) \o At \o ConfigOf(group_dir).location
                                      \o On \o group_dir[Len(group_dir) - 1] \o <<".">>
                             ELSE NameOf(group_dir) \o On
                                      \o group_dir[Len(group_dir) - 1] \o <<".">>)

\* C18, amended: as above, with the " at {location}" form of the description
\* when location is present and not empty, and a url field exactly when url
\* is present and not empty.
C18_EntryFieldsNonEmpty ==
    Regenerated =>
        \A d \in 1..Len(log[1].dirs) :
            LET group_dir == log[1].dirs[d]
            IN  ReadableConfig(group_dir) =>
                  \E e \in 1..Len(gallery_config) :
                      /\ EntryBasics(gallery_config[e], group_dir)
                      /\ "url" \in DOMAIN gallery_config[e]
                            <=> NonEmpty(ConfigOf(group_dir), "url")
                      /\ gallery_config[e].description =
                            (IF NonEmpty(ConfigOf(group_dir), "location")
                             THEN NameOf(group_dir) \o At \o ConfigOf(group_dir).location
                                      \o On \o group_dir[Len(group_dir) - 1] \o <<".">>
                             ELSE NameOf(group_dir) \o On
                                      \o group_dir[Len(group_dir) - 1] \o <<".">>)

\* the entries of 2024-01-01/b (name B, location S) and of 2024-02-29/b (name
\* N, no location) have been built
C18_Witness ==
    /\ Regenerated
    /\ Len(gallery_config) = 2
    /\ gallery_config[1].id = <<"b">>
    /\ gallery_config[1].description =
          <<"B"," ","a","t"," ","S"," ","o","n"," ","2","0","2","4","-","0","1","-","0","1",".">>
    /\ gallery_config[2].description =
          <<"N"," ","o","n"," ","2","0","2","4","-","0","2","-","2","9",".">>

(***************************************************************************)
(* Remote keys and the order of the steps of a run.                        *)
(***************************************************************************)
\* what follows the last '.' of a name, the '.' included
ExtensionOf(name) ==
    IF \E i \in 1..Len(name) : name[i] = "." THEN SubSeq(name, rfind(name, "."), Len(name))
    ELSE <<>>

\* base_path/group_id/compressed/F with F the stem of the original, then
\* '-compressed', then its extension
StatedKey(group_id, filename) ==
    base_path \o <<"/">> \o group_id \o <<"/">> \o compressed_name \o <<"/">>
        \o StripExtension(filename) \o compressed_suffix \o ExtensionOf(filename)

\* C19: every upload of a run, whatever the number of '.' in the name of the
\* original, is made under the key base_path/group_id/compressed/F, where F is
\* the stem of the original followed by '-compressed' and by its extension.
C19_RemoteKey ==
    \A k \in EventsOf("upload") :
        log[k].key = StatedKey(log[k].dir[Len(log[k].dir)], log[k].file)

\* the events of the run that belong to a group directory
GroupEvents == { k \in 1..Len(log) : log[k].op \in {"mkdir", "codec", "upload"}
                                      \/ (log[k].op = "save" /\ log[k].dir # <<>>) }

\* the position of a group directory in the list discovery returned
PositionOf(source_dir) == CHOOSE d \in 1..Len(group_dirs) : group_dirs[d] = source_dir

\* the step of a group an event belongs to: compression, upload, manifest
\* update
StepOf(k) ==
    IF log[k].op \in {"mkdir", "codec"} THEN 1
    ELSE IF log[k].op = "upload" THEN 2
    ELSE 3

\* C20: the groups are processed one after another in discovery order, and
\* within a group every codec invocation precedes the first upload and every
\* upload precedes the manifest update; hence the manifest update of a group
\* precedes every codec invocation of the next.
C20_StepsInOrder ==
    \A i \in GroupEvents, j \in GroupEvents :
        i < j =>
            \/ PositionOf(log[i].dir) < PositionOf(log[j].dir)
            \/ /\ log[i].dir = log[j].dir
               /\ StepOf(i) <= StepOf(j)

\* a run over two groups is over: each had a codec invocation, an upload and
\* a manifest update, the first group two codec invocations and two uploads
C20_Witness ==
    /\ pc = "done"
    /\ exit_code = "0"
    /\ Len(group_dirs) = 2
    /\ \A d \in 1..2 : \A op \in {"codec", "upload", "save"} :
          \E k \in EventsOf(op) : log[k].dir = group_dirs[d]
    /\ Cardinality({ k \in EventsOf("codec") : log[k].dir = group_dirs[1] }) = 2
    /\ Cardinality({ k \in EventsOf("upload") : log[k].dir = group_dirs[1] }) = 2

(***************************************************************************)
(* The manifest in memory and on disk.                                     *)
(***************************************************************************)
\* the last call changed the in-memory manifest: regenerate_from_groups, or
\* update_group_images on a group that exists
Mutated ==
    /\ log # <<>>
    /\ \/ log[1].op = "regenerate"
       \/ log[1].op = "update" /\ log[1].found # 0

RECURSIVE UploadedKeysFrom(_, _)
UploadedKeysFrom(source_dir, n) ==
    IF n = 0 THEN <<>>
    ELSE IF /\ log[n].op = "upload"
            /\ log[n].dir = source_dir
            /\ log[n].ok
         THEN Append(UploadedKeysFrom(source_dir, n - 1), log[n].key)
         ELSE UploadedKeysFrom(source_dir, n - 1)

\* the run went through the loop over the group directories to its end, or
\* was ended before by a manifest write that failed
LoopOver == pc = "done" /\ purge_result # "none"

NoFailedSave == \A k \in FailedEvents : log[k].op # "save"

\* every image of the directory was taken up: the codec failed on it, or its
\* upload was attempted
Processed(source_dir) ==
    \A f \in ImagesOf(source_dir) :
        \E k \in EventsOf("codec") \cup EventsOf("upload") :
            log[k].dir = source_dir /\ log[k].file = f

\* C22: at the end of a run without a failed manifest write, a group directory
\* from which no image was uploaded has empty images and an empty coverImage
\* in the manifest file, every group directory after it was processed, and the
\* exit status is 0.
C22_EmptyGroupStaysEmpty ==
    (LoopOver /\ NoFailedSave) =>
        \A d \in 1..Len(group_dirs) :
            UploadedKeysFrom(group_dirs[d], Len(log)) = <<>> =>
                /\ exit_code = "0"
                /\ manifest.valid
                /\ \A e \in EntriesOf(group_dirs[d]) :
                      /\ manifest.groups[e].images = <<>>
                      /\ manifest.groups[e].coverImage = <<>>
                /\ \A later \in (d+1)..Len(group_dirs) : Processed(group_dirs[later])

\* the given directories whose config.json exists and parses, in input order
ReadableDirs(dirs) == SelectSeq(dirs, ReadableConfig)

\* C23: after regenerate_from_groups the in-memory manifest holds exactly one
\* entry, without images, for each given directory whose config.json exists
\* and parses, in input order, and nothing of what it held before; a directory
\* whose config.json is missing or unreadable has no entry, and the file is
\* saved with the entries of the others.
C23_OneEntryPerReadableDir ==
    Regenerated =>
        LET readable == ReadableDirs(log[1].dirs)
        IN  /\ Len(gallery_config) = Len(readable)
            /\ \A i \in 1..Len(readable) :
                  /\ gallery_config[i].id = readable[i][Len(readable[i])]
                  /\ gallery_config[i].date_captured = readable[i][Len(readable[i]) - 1]
                  /\ gallery_config[i].images = <<>>
                  /\ gallery_config[i].coverImage = <<>>
            /\ manifest.valid
            /\ manifest.groups = gallery_config

\* three directories were given, the second without config.json, while the
\* manifest in memory held groups with images: two entries without images
C23_Witness ==
    /\ Regenerated
    /\ Len(log[1].dirs) = 3
    /\ ~ReadableConfig(log[1].dirs[2])
    /\ Len(gallery_config) = 2
    /\ \E e \in 1..Len(log[1].before) : log[1].before[e].images # <<>>
    /\ gallery_config[2].date_captured = Day2

\* the keys of the images of a manifest entry, in order
KeyListOf(entry) == [i \in 1..Len(entry.images) |-> entry.images[i].compressed]

\* C24: at the end of a run with exit status 0, the images of the manifest
\* entry of every group directory are exactly the keys uploaded with success
\* from that directory, in upload order, also when two directories of
\* different dates have the same name.
C24_EntryHoldsOwnUploads ==
    (LoopOver /\ exit_code = "0") =>
        \A d \in 1..Len(group_dirs) :
            \A e \in EntriesOf(group_dirs[d]) :
                KeyListOf(manifest.groups[e]) =
                    UploadedKeysFrom(group_dirs[d], Len(log))

\* C25: at the end of a run with exit status 0, every key uploaded with
\* success during the run is in the images of a manifest entry, and every
\* group directory from which an upload was attempted has a manifest entry.
C25_UploadsAreReferenced ==
    (LoopOver /\ exit_code = "0") =>
        \A k \in EventsOf("upload") :
            /\ EntriesOf(log[k].dir) # {}
            /\ log[k].ok =>
                  \E e \in 1..Len(manifest.groups) :
                      log[k].key \in KeysOf(manifest.groups[e])

\* C26: after any sequence of regenerate_from_groups and update_group_images
\* calls, every entry of the manifest, in memory and in the file, has an empty
\* coverImage if its images are empty, and otherwise a coverImage that is the
\* 'compressed' key of one of its images.
C26_CoverAmongImages ==
    \A groups \in {gallery_config, manifest.groups} :
        \A e \in 1..Len(groups) :
            IF groups[e].images = <<>>
            THEN groups[e].coverImage = <<>>
            ELSE groups[e].coverImage \in KeysOf(groups[e])

(***************************************************************************)
(* The frame of the purge.                                                 *)
(***************************************************************************)
\* the objects of the bucket before the first run whose key is not of the
\* form base_path/...
OutsideNamespace == { k \in InitialBucket : ~startswith(k, base_path \o slash) }

\* C27: the purge deletes only objects whose key is of the form base_path/...:
\* every object outside that namespace, also one whose key merely starts with
\* the characters of base_path, stays in the bucket.
C27_PurgeKeepsOtherObjects ==
    OutsideNamespace \subseteq bucket

====
